---- MODULE Spec2Model ----
(***************************************************************************)
(* Tessellation of the sphere and the torus: DisplayableSphere.generate    *)
(* and DisplayableTorus.generate.                                          *)
(*                                                                         *)
(* Numbers.  Radii are integer multiples of one unit length.  Angles are   *)
(* rational multiples of pi, <<p, q>> standing for p*pi/q.  A cosine or a  *)
(* sine is kept exactly, as a sign and a reference angle in [0, pi/2); a   *)
(* coordinate is a polynomial in such cosines with integer coefficients    *)
(* (the torus's in halves of the unit, since a and b are halves).  Equal   *)
(* terms denote equal reals; rounding of the floating-point evaluation is  *)
(* not modelled.                                                           *)
(***************************************************************************)
EXTENDS Integers, Sequences, FiniteSets, TLC

\* One instance on its own: obj, raised, last.  Several instances, each with a
\* thread inside generate: klass (the class attributes), inst (the instances'
\* own attributes), thread, actor (the instance whose thread stepped last).
VARIABLES obj, raised, last, klass, inst, thread, actor

vars == <<obj, raised, last, klass, inst, thread, actor>>

\* The value of the variables a specification does not use.
Unused == <<>>

\* ------------------------------------------------------------------ bounds
MaxDiv == 4

\* Division counts below the clamp: negative, -1 (no samples), 0, and 1.
LowDivs == {-2, -1, 0, 1}
Divs == LowDivs \cup (3..MaxDiv)
\* Radii, in units of 0.25; the sphere is also given a negative one.
Radii == {0, 1, 2}
SphereRadii == {-1} \cup Radii

\* ColorType values unpack to three components; None is the sphere's default.
NoneColor == <<>>
BLUE == <<0, 0, 1>>
SOFTBLUE == <<0, 1, 1>>

\* ------------------------------------------------------------ arithmetic
Abs(n) == IF n < 0 THEN 0 - n ELSE n

Sign(n) == IF n > 0 THEN 1 ELSE IF n < 0 THEN -1 ELSE 0

RECURSIVE Gcd(_, _)
Gcd(m, n) == IF n = 0 THEN m ELSE Gcd(n, m % n)

\* Python's true division of two integers, n / d with d # 0, as a reduced fraction.
TrueDiv(n, d) ==
    LET g == Gcd(Abs(n), Abs(d))
    IN  <<(Sign(d) * n) \div g, Abs(d) \div g>>

\* np.linspace(lo, hi, num)[k] for lo = loP*pi/loQ and hi = -lo, num = n + 1:
\* the angle lo + k * (hi - lo) / n; a single sample (n = 0) is lo itself.
Linspace(loP, loQ, n, k) ==
    IF n = 0 THEN <<loP, loQ>> ELSE <<loP * (n - 2 * k), loQ * n>>

\* cos(p*pi/q), q > 0: the sign and the reference angle r*pi, r in [0, 1/2).
ZeroTrig == [s |-> 0, r |-> <<1, 2>>]

Cos(ang) ==
    LET q  == ang[2]
        m0 == ang[1] % (2 * q)
        m1 == IF m0 > q THEN 2 * q - m0 ELSE m0
        sg == IF 2 * m1 > q THEN -1 ELSE 1
        m2 == IF 2 * m1 > q THEN q - m1 ELSE m1
    IN  IF 2 * m2 = q THEN ZeroTrig ELSE [s |-> sg, r |-> TrueDiv(m2, q)]

\* sin(x) = cos(x - pi/2)
Sin(ang) == Cos(<<2 * ang[1] - ang[2], 2 * ang[2]>>)

\* A number: a sum of monomials, each an integer coefficient c # 0 times the
\* cosines of the reference angles f (a sorted sequence), no two with the same f.
Zero == <<>>

Const(c) == IF c = 0 THEN Zero ELSE <<[c |-> c, f |-> <<>>]>>

FracLess(r1, r2) == r1[1] * r2[2] < r2[1] * r1[2]

\* The monomial f times cos(r*pi): r inserted in order; cos 0 = 1 is dropped.
Ins(f, r) ==
    IF r[1] = 0 THEN f
    ELSE LET n == Cardinality({i \in 1..Len(f) : FracLess(f[i], r)})
         IN  [i \in 1..(Len(f) + 1) |->
                 IF i <= n THEN f[i] ELSE IF i = n + 1 THEN r ELSE f[i - 1]]

\* x * t for a number x and a cosine t.
Scale(x, t) ==
    IF t.s = 0 THEN Zero
    ELSE [i \in 1..Len(x) |-> [c |-> x[i].c * t.s, f |-> Ins(x[i].f, t.r)]]

\* c * x for an integer c.
Times(c, x) ==
    IF c = 0 THEN Zero ELSE [i \in 1..Len(x) |-> [c |-> c * x[i].c, f |-> x[i].f]]

\* x + y: like monomials are added, and a sum of zero is dropped.
Add(x, y) ==
    LET co(z, f) == IF \E i \in 1..Len(z) : z[i].f = f
                    THEN z[CHOOSE i \in 1..Len(z) : z[i].f = f].c ELSE 0
        NonZero(m) == m.c # 0
        NotInX(m) == co(x, m.f) = 0
    IN  SelectSeq([i \in 1..Len(x) |-> [c |-> x[i].c + co(y, x[i].f), f |-> x[i].f]],
                  NonZero)
        \o SelectSeq(y, NotInX)

\* cos(r*pi) > n/d for 0 < r < 1/2 and 0 < n < d, decided on cos(r*pi) to four
\* decimal places: the series 1 - x^2/2! + x^4/4! - x^6/6! + x^8/8! in units of
\* 1/10000.
CosExceeds(r, n, d) ==
    LET x  == (31416 * r[1]) \div r[2]
        x2 == (x * x) \div 10000
        t4 == 10000 - (x2 \div 56)
        t3 == 10000 - (((x2 * t4) \div 10000) \div 30)
        t2 == 10000 - (((x2 * t3) \div 10000) \div 12)
        c  == 10000 - (((x2 * t2) \div 10000) \div 2)
    IN  c * d > n * 10000

\* ----------------------------------------------------------------- arrays
\* An attribute holding None, or a numpy array: its rows (of a 2-d array) or
\* its elements (of a 1-d array).
NoArray == [none |-> TRUE, ndim |-> 0, dtype |-> "", rows |-> <<>>]

Array(ndim, dtype, rows) ==
    [none |-> FALSE, ndim |-> ndim, dtype |-> dtype, rows |-> rows]

\* One row of np.zeros((n, 11)): position, normal, color, texture coordinate.
ZeroVertex ==
    [pos |-> <<Zero, Zero, Zero>>, normal |-> <<Zero, Zero, Zero>>,
     color |-> <<0, 0, 0>>, uv |-> <<<<0, 1>>, <<0, 1>>>>]

\* np.zeros((n, 11)) and np.zeros((n, 6), dtype=np.uint32), n >= 0.
ZeroVertices(n) == Array(2, "float64", [k \in 1..n |-> ZeroVertex])

ZeroIndices(n) == Array(2, "uint32", [k \in 1..n |-> <<0, 0, 0, 0, 0, 0>>])

\* a.flatten("C") of an (n, 6) array.
Flatten(a) ==
    Array(1, a.dtype,
          [m \in 1..(6 * Len(a.rows)) |-> a.rows[((m - 1) \div 6) + 1][((m - 1) % 6) + 1]])

\* ----------------------------------------------------------------- sphere
\* The class attributes a new instance starts from: radius, slices, stacks and
\* color are None, a descriptor with no value in it.
NoDesc == [none |-> TRUE]

SphereClass ==
    [cls |-> "Sphere",
     desc |-> NoDesc,
     vertices |-> NoArray, indices |-> NoArray]

\* SphereClamp with the threshold at 1.
SphereClampBelow1(n) == IF n < 1 THEN 3 ELSE n

SphereClamp(n) == IF n < 3 THEN 3 ELSE n

\* SphereVertex with theta over [-pi/2, pi/2].
SphereVertexHalfTurn(radius, slices, stacks, color, i, j) ==
    LET phi   == Linspace(-1, 2, slices, i)
        theta == Linspace(-1, 2, stacks, j)
        x  == Scale(Scale(Const(radius), Cos(phi)), Cos(theta))
        y  == Scale(Scale(Const(radius), Cos(phi)), Sin(theta))
        z  == Scale(Const(radius), Sin(phi))
        nx == Scale(Scale(Const(1), Cos(phi)), Cos(theta))
        ny == Scale(Scale(Const(1), Cos(phi)), Sin(theta))
        nz == Scale(Const(1), Sin(phi))
    IN  [pos |-> <<x, y, z>>, normal |-> <<nx, ny, nz>>, color |-> color,
         uv |-> <<TrueDiv(j, stacks), TrueDiv(i, slices)>>]

SphereVertex(radius, slices, stacks, color, i, j) ==
    LET phi   == Linspace(-1, 2, slices, i)
        theta == Linspace(-1, 1, stacks, j)
        x  == Scale(Scale(Const(radius), Cos(phi)), Cos(theta))
        y  == Scale(Scale(Const(radius), Cos(phi)), Sin(theta))
        z  == Scale(Const(radius), Sin(phi))
        nx == Scale(Scale(Const(1), Cos(phi)), Cos(theta))
        ny == Scale(Scale(Const(1), Cos(phi)), Sin(theta))
        nz == Scale(Const(1), Sin(phi))
    IN  [pos |-> <<x, y, z>>, normal |-> <<nx, ny, nz>>, color |-> color,
         uv |-> <<TrueDiv(j, stacks), TrueDiv(i, slices)>>]

\* SphereCell with the wrap of the last row and column forgotten.
SphereCellNoWrap(slices_1, stacks_1, i, j) ==
    LET i_by_j     == i * stacks_1 + j
        ip1_by_j   == (i + 1) * stacks_1 + j
        i_by_jp1   == i * stacks_1 + (j + 1)
        ip1_by_jp1 == (i + 1) * stacks_1 + (j + 1)
    IN  <<i_by_j, ip1_by_j, i_by_jp1, ip1_by_jp1, ip1_by_j, i_by_jp1>>

\* The six indices written at grid sample (i, j).
SphereCell(slices_1, stacks_1, i, j) ==
    LET i_by_j     == i * stacks_1 + j
        ip1_by_j   == ((i + 1) % slices_1) * stacks_1 + j
        i_by_jp1   == i * stacks_1 + ((j + 1) % stacks_1)
        ip1_by_jp1 == ((i + 1) % slices_1) * stacks_1 + ((j + 1) % stacks_1)
    IN  <<i_by_j, ip1_by_j, i_by_jp1, ip1_by_jp1, ip1_by_j, i_by_jp1>>

\* SphereVertices with the row of sample (i, j) at i + j * slices_1.
SphereVerticesColumnMajor(radius, slices, stacks, color) ==
    [k \in 1..((slices + 1) * (stacks + 1)) |->
       SphereVertex(radius, slices, stacks, color,
                    (k - 1) % (slices + 1), (k - 1) \div (slices + 1))]

\* The rows the loops write into self.vertices: the row of sample (i, j) is at
\* i * stacks_1 + j.
SphereVertices(radius, slices, stacks, color) ==
    [k \in 1..((slices + 1) * (stacks + 1)) |->
       SphereVertex(radius, slices, stacks, color,
                    (k - 1) \div (stacks + 1), (k - 1) % (stacks + 1))]

\* SphereIndices with the loops run over the cells below the last row and column.
SphereIndicesInner(slices_1, stacks_1) ==
    [k \in 1..((slices_1 - 1) * (stacks_1 - 1)) |->
       SphereCell(slices_1, stacks_1,
                  (k - 1) \div (stacks_1 - 1), (k - 1) % (stacks_1 - 1))]

\* The rows the loops write into self.indices.
SphereIndices(slices_1, stacks_1) ==
    [k \in 1..(slices_1 * stacks_1) |->
       SphereCell(slices_1, stacks_1, (k - 1) \div stacks_1, (k - 1) % stacks_1)]

\* The two loops' results, tabulated over the arguments they are run with.
SphereDivs == {SphereClamp(n) : n \in Divs}

SphereVerticesTab ==
    [a \in SphereRadii \X SphereDivs \X SphereDivs \X {BLUE} |->
       SphereVertices(a[1], a[2], a[3], a[4])]

SphereIndicesTab ==
    [a \in SphereDivs \X SphereDivs |-> SphereIndices(a[1] + 1, a[2] + 1)]

\* generate(radius, slices, stacks, color) on instance self: the instance it
\* leaves and the exception it raises ("none": it returns).
SphereGenerate(self, radius, slices0, stacks0, color) ==
    LET slices   == SphereClamp(slices0)
        stacks   == SphereClamp(stacks0)
        slices_1 == slices + 1
        stacks_1 == stacks + 1
        alloc    == [self EXCEPT
                       !.desc = [radius |-> radius, slices |-> slices,
                                 stacks |-> stacks, color |-> color],
                       !.vertices = ZeroVertices(slices_1 * stacks_1),
                       !.indices = ZeroIndices(slices_1 * stacks_1)]
    IN  IF color = NoneColor
        THEN \* *color at the first sample (0, 0), before any row is written
             [obj |-> alloc, raised |-> "TypeError"]
        ELSE [obj |-> [alloc EXCEPT
                         !.vertices = Array(2, "float64",
                                            SphereVerticesTab[<<radius, slices, stacks, color>>]),
                         !.indices = Flatten(Array(2, "uint32",
                                                   SphereIndicesTab[<<slices, stacks>>]))],
              raised |-> "none"]

\* ------------------------------------------------------------------ torus
TorusClass ==
    [cls |-> "Torus",
     desc |-> [innerRadius |-> 0, outerRadius |-> 0, nsides |-> 0, rings |-> 0,
               color |-> NoneColor],
     vertices |-> NoArray, indices |-> NoArray]

\* np.sign(a + b * cos_v), with a = a2/2 and b = b2/2.
SignComm(a2, b2, cos_v) ==
    LET B == b2 * cos_v.s
    IN  IF cos_v.s = 0
        THEN \* the float nearest pi/2 has cosine +6.1e-17: a zero a leaves b's sign
             IF a2 # 0 THEN Sign(a2) ELSE Sign(b2)
        ELSE IF cos_v.r[1] = 0 THEN Sign(a2 + B)
        ELSE IF cos_v.r = <<1, 3>> THEN Sign(2 * a2 + B)
        ELSE IF a2 = 0 \/ Sign(a2) = Sign(B) THEN Sign(B)
        ELSE IF Abs(a2) >= Abs(B) THEN Sign(a2)
        ELSE IF CosExceeds(cos_v.r, Abs(a2), Abs(B)) THEN Sign(B)
        ELSE Sign(a2)

\* TorusVertex with the texture coordinate's components exchanged.
TorusVertexUVSwapped(a2, b2, nsides, rings, color, i, j) ==
    LET u     == Linspace(-1, 1, nsides, i)
        v     == Linspace(-1, 1, rings, j)
        cos_u == Cos(u)
        sin_u == Sin(u)
        cos_v == Cos(v)
        sin_v == Sin(v)
        comm_patt == Add(Const(a2), Scale(Const(b2), cos_v))
        x  == Scale(comm_patt, cos_u)
        y  == Scale(comm_patt, sin_u)
        z  == Scale(Const(b2), sin_v)
        sg == Sign(b2) * SignComm(a2, b2, cos_v)
        nx == Times(sg, Scale(Scale(Const(1), cos_u), cos_v))
        ny == Times(sg, Scale(Scale(Const(1), sin_u), cos_v))
        nz == Times(sg, Scale(Const(1), sin_v))
    IN  [pos |-> <<x, y, z>>, normal |-> <<nx, ny, nz>>, color |-> color,
         uv |-> <<TrueDiv(j, rings), TrueDiv(i, nsides)>>]

TorusVertex(a2, b2, nsides, rings, color, i, j) ==
    LET u     == Linspace(-1, 1, nsides, i)
        v     == Linspace(-1, 1, rings, j)
        cos_u == Cos(u)
        sin_u == Sin(u)
        cos_v == Cos(v)
        sin_v == Sin(v)
        comm_patt == Add(Const(a2), Scale(Const(b2), cos_v))
        x  == Scale(comm_patt, cos_u)
        y  == Scale(comm_patt, sin_u)
        z  == Scale(Const(b2), sin_v)
        sg == Sign(b2) * SignComm(a2, b2, cos_v)
        nx == Times(sg, Scale(Scale(Const(1), cos_u), cos_v))
        ny == Times(sg, Scale(Scale(Const(1), sin_u), cos_v))
        nz == Times(sg, Scale(Const(1), sin_v))
    IN  [pos |-> <<x, y, z>>, normal |-> <<nx, ny, nz>>, color |-> color,
         uv |-> <<TrueDiv(i, nsides), TrueDiv(j, rings)>>]

\* The six indices written at grid sample (i, j).
TorusCell(nsides_1, rings_1, i, j) ==
    LET i_by_j     == i * rings_1 + j
        i_by_jp1   == i * rings_1 + ((j + 1) % rings_1)
        ip1_by_j   == ((i + 1) % nsides_1) * rings_1 + j
        ip1_by_jp1 == ((i + 1) % nsides_1) * rings_1 + ((j + 1) % rings_1)
    IN  <<i_by_j, ip1_by_j, i_by_jp1, ip1_by_jp1, ip1_by_j, i_by_jp1>>

\* The rows the loops write into self.vertices, a2 = 2a and b2 = 2b: the row
\* of sample (i, j) is at i * rings_1 + j.
TorusVertices(a2, b2, nsides, rings, color) ==
    [k \in 1..((nsides + 1) * (rings + 1)) |->
       TorusVertex(a2, b2, nsides, rings, color,
                   (k - 1) \div (rings + 1), (k - 1) % (rings + 1))]

\* TorusIndices with the loops run over the cells below the last row and column.
TorusIndicesInner(nsides_1, rings_1) ==
    [k \in 1..((nsides_1 - 1) * (rings_1 - 1)) |->
       TorusCell(nsides_1, rings_1,
                 (k - 1) \div (rings_1 - 1), (k - 1) % (rings_1 - 1))]

\* The rows the loops write into self.indices.
TorusIndices(nsides_1, rings_1) ==
    [k \in 1..(nsides_1 * rings_1) |->
       TorusCell(nsides_1, rings_1, (k - 1) \div rings_1, (k - 1) % rings_1)]

\* The two loops' results, tabulated over the arguments they are run with.
TorusDivs == {n \in Divs : n >= 1}

TorusVerticesTab ==
    [a \in {r \in Radii \X Radii : r[1] # r[2]} \X TorusDivs \X TorusDivs \X {SOFTBLUE} |->
       TorusVertices(a[1][2] + a[1][1], a[1][2] - a[1][1], a[2], a[3], a[4])]

TorusIndicesTab ==
    [a \in TorusDivs \X TorusDivs |-> TorusIndices(a[1] + 1, a[2] + 1)]

\* TorusOrder with the swap forgotten.
TorusOrderAsGiven(innerRadius, outerRadius) == <<innerRadius, outerRadius>>

\* The radii as generate stores them: <<innerRadius, outerRadius>>.
TorusOrder(innerRadius, outerRadius) ==
    IF innerRadius > outerRadius
    THEN <<outerRadius, innerRadius>>
    ELSE <<innerRadius, outerRadius>>

\* TorusEmpty with the vertices left as they were.
TorusEmptyKeepVertices(self) ==
    [self EXCEPT !.indices = Array(1, "float64", <<>>)]

\* The torus of no thickness: empty vertices and indices.
TorusEmpty(self) ==
    [self EXCEPT !.vertices = ZeroVertices(0),
                 !.indices = Array(1, "float64", <<>>)]

\* generate(innerRadius, outerRadius, nsides, rings, color) on instance self:
\* the instance it leaves and the exception it raises ("none": it returns).
\* Positions are in halves of the unit.
TorusGenerate(self, innerRadius0, outerRadius0, nsides, rings, color) ==
    LET innerRadius == TorusOrder(innerRadius0, outerRadius0)[1]
        outerRadius == TorusOrder(innerRadius0, outerRadius0)[2]
        stored   == [self EXCEPT
                       !.desc = [innerRadius |-> innerRadius, outerRadius |-> outerRadius,
                                 nsides |-> nsides, rings |-> rings, color |-> color]]
        b2       == outerRadius - innerRadius
        nsides_1 == nsides + 1
        rings_1  == rings + 1
        n        == nsides_1 * rings_1
        alloc    == [stored EXCEPT !.vertices = ZeroVertices(n),
                                   !.indices = ZeroIndices(n)]
    IN  IF b2 = 0
        THEN [obj |-> TorusEmpty(stored), raised |-> "none"]
        ELSE IF n < 0
        THEN \* np.zeros with a negative dimension
             [obj |-> stored, raised |-> "ValueError"]
        ELSE IF nsides_1 < 0
        THEN \* np.linspace with a negative number of samples
             [obj |-> alloc, raised |-> "ValueError"]
        ELSE IF nsides_1 = 0 \/ rings_1 = 0
        THEN \* no sample: the loop body never runs
             [obj |-> [alloc EXCEPT !.indices = Flatten(alloc.indices)],
              raised |-> "none"]
        ELSE IF color = NoneColor
        THEN [obj |-> alloc, raised |-> "TypeError"]
        ELSE IF nsides = 0 \/ rings = 0
        THEN \* i / nsides or j / rings at the first sample (0, 0)
             [obj |-> alloc, raised |-> "ZeroDivisionError"]
        ELSE [obj |-> [alloc EXCEPT
                         !.vertices = Array(2, "float64",
                             TorusVerticesTab[<<<<innerRadius, outerRadius>>, nsides, rings, color>>]),
                         !.indices = Flatten(Array(2, "uint32",
                                                   TorusIndicesTab[<<nsides, rings>>]))],
              raised |-> "none"]

\* ------------------------------------------------------------ the program
\* The arguments of a call, as the caller gave them.
SphereArgs == [radius : SphereRadii, slices : Divs, stacks : Divs, color : {NoneColor, BLUE}]

TorusArgs == [innerRadius : Radii, outerRadius : Radii, nsides : Divs, rings : Divs,
              color : {SOFTBLUE}]

\* generate with arguments c on instance self.
Generate(self, c) ==
    IF self.cls = "Sphere"
    THEN SphereGenerate(self, c.radius, c.slices, c.stacks, c.color)
    ELSE TorusGenerate(self, c.innerRadius, c.outerRadius, c.nsides, c.rings, c.color)

\* An instance as its class leaves it before __init__ calls generate.
New(cls) == IF cls = "Sphere" THEN SphereClass ELSE TorusClass

\* __init__: generate on a new instance; the instance exists when it returns.
Init ==
    \E cls \in {"Sphere", "Torus"} :
      \E c \in (IF cls = "Sphere" THEN SphereArgs ELSE TorusArgs) :
        /\ Generate(New(cls), c).raised = "none"
        /\ obj = Generate(New(cls), c).obj
        /\ raised = "none"
        /\ last = c
        /\ klass = Unused /\ inst = Unused /\ thread = Unused /\ actor = Unused

\* A call of generate on the sphere.  An exception is not caught anywhere in
\* the program: after one, no further call is made.
SphereCall ==
    /\ obj.cls = "Sphere"
    /\ raised = "none"
    /\ \E c \in SphereArgs :
         LET out == Generate(obj, c)
         IN  /\ obj' = out.obj
             /\ raised' = out.raised
             /\ last' = c
             /\ UNCHANGED <<klass, inst, thread, actor>>

\* A call of generate on the torus.
TorusCall ==
    /\ obj.cls = "Torus"
    /\ raised = "none"
    /\ \E c \in TorusArgs :
         LET out == Generate(obj, c)
         IN  /\ obj' = out.obj
             /\ raised' = out.raised
             /\ last' = c
             /\ UNCHANGED <<klass, inst, thread, actor>>

Next == SphereCall \/ TorusCall

Spec == Init /\ [][Next]_vars

\* ------------------------------------------------- several instances
\* Attribute access.  w = [klass, inst]: klass[cls] holds the attributes
\* declared in the class body, inst[k].dict the attributes assigned on
\* instance k.  The descriptor fields are one attribute, "desc".
Insts == {1, 2}

ClassAttrs(cls) ==
    [desc |-> New(cls).desc, vertices |-> New(cls).vertices, indices |-> New(cls).indices]

\* self.attr: the instance's own attribute, else the class's.
GetAttr(w, k, attr) ==
    IF attr \in DOMAIN w.inst[k].dict
    THEN w.inst[k].dict[attr]
    ELSE w.klass[w.inst[k].cls][attr]

\* SetAttr with the assignment made on the class.
SetAttrOnClass(w, k, attr, val) ==
    [w EXCEPT !.klass[w.inst[k].cls][attr] = val]

\* self.attr = val: the attribute is created or replaced on the instance.
SetAttr(w, k, attr, val) ==
    [w EXCEPT !.inst[k].dict =
        [x \in (DOMAIN @) \cup {attr} |-> IF x = attr THEN val ELSE @[x]]]

\* self.attr[...] = rows: the array self.attr refers to is written in place.
SetItems(w, k, attr, rows) ==
    IF attr \in DOMAIN w.inst[k].dict
    THEN [w EXCEPT !.inst[k].dict[attr].rows = rows]
    ELSE [w EXCEPT !.klass[w.inst[k].cls][attr].rows = rows]

\* Instance k as its attributes read.
View(w, k) ==
    [cls |-> w.inst[k].cls, desc |-> GetAttr(w, k, "desc"),
     vertices |-> GetAttr(w, k, "vertices"), indices |-> GetAttr(w, k, "indices")]

World == [klass |-> klass, inst |-> inst]

\* The arguments the threads call generate with.
SphereArgsInst == [radius : {1}, slices : {1, 4}, stacks : {3}, color : {NoneColor, BLUE}]

TorusArgsInst == [innerRadius : {1}, outerRadius : {1, 2}, nsides : {-2, 0, 3}, rings : {3},
                  color : {SOFTBLUE}]

\* Two instances, of any classes, allocated and about to run __init__'s generate.
InitInst ==
    /\ klass = [cls \in {"Sphere", "Torus"} |-> ClassAttrs(cls)]
    /\ inst \in [Insts -> {[cls |-> cls, dict |-> <<>>] : cls \in {"Sphere", "Torus"}}]
    /\ thread = [k \in Insts |-> "ready"]
    /\ actor = 0
    /\ obj = Unused /\ raised = Unused /\ last = Unused

\* The step of instance k's thread to pc, leaving the attributes w.
Step(k, pc, w) ==
    /\ klass' = w.klass
    /\ inst' = w.inst
    /\ thread' = [thread EXCEPT ![k] = pc]
    /\ actor' = k
    /\ UNCHANGED <<obj, raised, last>>

\* Sphere generate, the clamp and the descriptor.
SphereStore(k) ==
    /\ inst[k].cls = "Sphere" /\ thread[k] = "ready"
    /\ \E c \in SphereArgsInst :
         Step(k, "stored",
              SetAttr(World, k, "desc",
                      [radius |-> c.radius, slices |-> SphereClamp(c.slices),
                       stacks |-> SphereClamp(c.stacks), color |-> c.color]))

\* Sphere generate, the two np.zeros.
SphereAlloc(k) ==
    /\ inst[k].cls = "Sphere" /\ thread[k] = "stored"
    /\ LET d == GetAttr(World, k, "desc")
            n == (d.slices + 1) * (d.stacks + 1)
        IN  Step(k, "allocated",
                 SetAttr(SetAttr(World, k, "vertices", ZeroVertices(n)),
                         k, "indices", ZeroIndices(n)))

\* Sphere generate, the loops.
SphereFill(k) ==
    /\ inst[k].cls = "Sphere" /\ thread[k] = "allocated"
    /\ LET d == GetAttr(World, k, "desc")
        IN  IF d.color = NoneColor
            THEN Step(k, "TypeError", World)
            ELSE Step(k, "filled",
                      SetItems(SetItems(World, k, "vertices",
                                        SphereVerticesTab[<<d.radius, d.slices, d.stacks, d.color>>]),
                               k, "indices", SphereIndicesTab[<<d.slices, d.stacks>>]))

\* Sphere generate, the flatten and the return.
SphereFlatten(k) ==
    /\ inst[k].cls = "Sphere" /\ thread[k] = "filled"
    /\ Step(k, "ready", SetAttr(World, k, "indices", Flatten(GetAttr(World, k, "indices"))))

\* Torus generate, the swap and the descriptor.
TorusStore(k) ==
    /\ inst[k].cls = "Torus" /\ thread[k] = "ready"
    /\ \E c \in TorusArgsInst :
         Step(k, "stored",
              SetAttr(World, k, "desc",
                      [innerRadius |-> TorusOrder(c.innerRadius, c.outerRadius)[1],
                       outerRadius |-> TorusOrder(c.innerRadius, c.outerRadius)[2],
                       nsides |-> c.nsides, rings |-> c.rings, color |-> c.color]))

\* Torus generate, the empty torus or the two np.zeros.
TorusAlloc(k) ==
    /\ inst[k].cls = "Torus" /\ thread[k] = "stored"
    /\ LET d == GetAttr(World, k, "desc")
            n == (d.nsides + 1) * (d.rings + 1)
        IN  IF d.outerRadius - d.innerRadius = 0
            THEN Step(k, "ready",
                      SetAttr(SetAttr(World, k, "vertices", ZeroVertices(0)),
                              k, "indices", Array(1, "float64", <<>>)))
            ELSE IF n < 0
            THEN Step(k, "ValueError", World)
            ELSE Step(k, "allocated",
                      SetAttr(SetAttr(World, k, "vertices", ZeroVertices(n)),
                              k, "indices", ZeroIndices(n)))

\* Torus generate, the loops.
TorusFill(k) ==
    /\ inst[k].cls = "Torus" /\ thread[k] = "allocated"
    /\ LET d == GetAttr(World, k, "desc")
        IN  IF d.nsides + 1 < 0
            THEN Step(k, "ValueError", World)
            ELSE IF d.nsides + 1 = 0 \/ d.rings + 1 = 0
            THEN Step(k, "filled", World)
            ELSE IF d.color = NoneColor
            THEN Step(k, "TypeError", World)
            ELSE IF d.nsides = 0 \/ d.rings = 0
            THEN Step(k, "ZeroDivisionError", World)
            ELSE Step(k, "filled",
                      SetItems(SetItems(World, k, "vertices",
                                        TorusVerticesTab[<<<<d.innerRadius, d.outerRadius>>,
                                                           d.nsides, d.rings, d.color>>]),
                               k, "indices", TorusIndicesTab[<<d.nsides, d.rings>>]))

\* Torus generate, the flatten and the return.
TorusFlatten(k) ==
    /\ inst[k].cls = "Torus" /\ thread[k] = "filled"
    /\ Step(k, "ready", SetAttr(World, k, "indices", Flatten(GetAttr(World, k, "indices"))))

NextInst ==
    \E k \in Insts :
      \/ SphereStore(k)
      \/ SphereAlloc(k)
      \/ SphereFill(k)
      \/ SphereFlatten(k)
      \/ TorusStore(k)
      \/ TorusAlloc(k)
      \/ TorusFill(k)
      \/ TorusFlatten(k)

SpecInst == InitInst /\ [][NextInst]_vars

\* ------------------------------------------------------------- the claims
Returned == raised = "none"

VertexCount == Len(obj.vertices.rows)

IndexCount == Len(obj.indices.rows)

\* The stored division counts along the first and the second axis.
DivA == IF obj.cls = "Sphere" THEN obj.desc.slices ELSE obj.desc.nsides

DivB == IF obj.cls = "Sphere" THEN obj.desc.stacks ELSE obj.desc.rings

SameArray(a, b) ==
    /\ a.none = b.none
    /\ a.ndim = b.ndim
    /\ a.dtype = b.dtype
    /\ a.rows = b.rows

\* Two outcomes of generate: the same exception, descriptor and buffers.
SameOutcome(o1, o2) ==
    /\ o1.raised = o2.raised
    /\ o1.obj.cls = o2.obj.cls
    /\ o1.obj.desc = o2.obj.desc
    /\ SameArray(o1.obj.vertices, o2.obj.vertices)
    /\ SameArray(o1.obj.indices, o2.obj.indices)

RaiseTo3(n) == IF n < 3 THEN 3 ELSE n

\* C1: after generate calls that return normally, every stored index is a
\* valid vertex index, 0 <= index < vertexCount, wrapped indices included.
C1_IndicesInRange ==
    Returned =>
      \A m \in 1..IndexCount :
        0 <= obj.indices.rows[m] /\ obj.indices.rows[m] < VertexCount

\* The sample of the last row and last column wraps on both axes to index 0.
C1_Witness ==
    /\ Returned
    /\ VertexCount >= 16
    /\ obj.indices.rows[6 * VertexCount - 5] = VertexCount - 1
    /\ obj.indices.rows[6 * VertexCount - 2] = 0

\* C2: generate never fails: every call returns normally.
C2_NeverFails == raised = "none"

\* C3: after any torus generate call the stored nsides and rings are >= 3, and
\* the call leaves what the call with each count below 3 raised to 3 leaves.
TorusRaised(c) == [c EXCEPT !.nsides = RaiseTo3(@), !.rings = RaiseTo3(@)]

C3_TorusClamp ==
    /\ obj.cls = "Torus" =>
         /\ obj.desc.nsides >= 3 /\ obj.desc.rings >= 3
         /\ SameOutcome([obj |-> obj, raised |-> raised],
                        Generate(New("Torus"), TorusRaised(last)))
    /\ [][obj.cls = "Torus" =>
            /\ obj'.desc.nsides >= 3 /\ obj'.desc.rings >= 3
            /\ SameOutcome([obj |-> obj', raised |-> raised'],
                           Generate(obj, TorusRaised(last')))]_vars

\* C4: a sphere generate call with slices and/or stacks below 3 leaves exactly
\* what the call with each such count replaced by 3 leaves, and the stored
\* slices and stacks are always >= 3.
SphereRaised(c) == [c EXCEPT !.slices = RaiseTo3(@), !.stacks = RaiseTo3(@)]

C4_SphereClamp ==
    /\ obj.cls = "Sphere" =>
         /\ obj.desc.slices >= 3 /\ obj.desc.stacks >= 3
         /\ SameOutcome([obj |-> obj, raised |-> raised],
                        Generate(New("Sphere"), SphereRaised(last)))
    /\ [][obj.cls = "Sphere" =>
            /\ obj'.desc.slices >= 3 /\ obj'.desc.stacks >= 3
            /\ SameOutcome([obj |-> obj', raised |-> raised'],
                           Generate(obj, SphereRaised(last')))]_vars

\* generate(slices=1, stacks=1) has left the mesh of generate(slices=3, stacks=3).
C4_Witness ==
    /\ obj.cls = "Sphere" /\ Returned
    /\ last.slices = 1 /\ last.stacks = 1
    /\ obj.desc.slices = 3 /\ obj.desc.stacks = 3
    /\ VertexCount = 16

\* C5, as claimed: triangles are emitted only for the cells (i, j) with i < R
\* and j < C, so the index buffer has 6*R*C entries: 54 for the sphere with
\* slices = stacks = 3, 96 for the torus with nsides = rings = 4.
C5_CellsInsideOnly ==
    (Returned /\ VertexCount > 0) => IndexCount = 6 * DivA * DivB

\* C5, amended: every grid sample (i, j), 0 <= i <= R and 0 <= j <= C, those of
\* the final row and column included, anchors six indices, so the index buffer
\* has 6*(R+1)*(C+1) entries: the sphere with slices = stacks = 3 has 16
\* vertices and 96 indices, the torus with inner = 0.25, outer = 0.5 and
\* nsides = rings = 4 has 25 vertices and 150 indices.
C5_CellAtEverySample ==
    Returned =>
      /\ IndexCount = 6 * VertexCount
      /\ VertexCount > 0 => IndexCount = 6 * (DivA + 1) * (DivB + 1)
      /\ \A k \in 1..VertexCount : obj.indices.rows[6 * (k - 1) + 1] = k - 1
      /\ (obj.cls = "Sphere" /\ DivA = 3 /\ DivB = 3) =>
            (VertexCount = 16 /\ IndexCount = 96)
      /\ (obj.cls = "Torus" /\ DivA = 4 /\ DivB = 4
             /\ obj.desc.innerRadius = 1 /\ obj.desc.outerRadius = 2) =>
            (VertexCount = 25 /\ IndexCount = 150)

\* The torus of the scenario, with a cell anchored at its last sample.
C5_Witness ==
    /\ obj.cls = "Torus" /\ Returned
    /\ obj.desc.innerRadius = 1 /\ obj.desc.outerRadius = 2
    /\ DivA = 4 /\ DivB = 4
    /\ IndexCount = 150
    /\ obj.indices.rows[145] = 24

\* C6: the flattened index buffer of every sphere and of every torus with
\* non-zero tube thickness has length 6 * (divisions_a + 1) * (divisions_b + 1)
\* for the stored division counts.
C6_IndexLength ==
    (Returned /\ (obj.cls = "Sphere" \/ obj.desc.innerRadius # obj.desc.outerRadius)) =>
      /\ obj.indices.ndim = 1
      /\ IndexCount = 6 * (DivA + 1) * (DivB + 1)

C6_Witness ==
    /\ obj.cls = "Sphere" /\ Returned
    /\ DivA = 4 /\ DivB = 3
    /\ VertexCount = 20 /\ IndexCount = 120

\* C7: both triangles of every cell have the same, non-zero orientation: the
\* signed areas of [idx(i,j), idx(i+1,j), idx(i,j+1)] and of
\* [idx(i+1,j+1), idx(i+1,j), idx(i,j+1)] in grid coordinates have one sign.
\* An index's grid offset from its cell's anchor k, the wrap undone.
Offset(idx, k) ==
    <<((idx \div (DivB + 1)) - (k \div (DivB + 1))) % (DivA + 1),
      ((idx % (DivB + 1)) - (k % (DivB + 1))) % (DivB + 1)>>

Area2(p, q, r) ==
    (q[1] - p[1]) * (r[2] - p[2]) - (q[2] - p[2]) * (r[1] - p[1])

C7_BothTrianglesCCW ==
    Returned =>
      \A k \in 0..(VertexCount - 1) :
        LET o(m) == Offset(obj.indices.rows[6 * k + m], k)
            first  == Area2(o(1), o(2), o(3))
            second == Area2(o(4), o(5), o(6))
        IN  first # 0 /\ Sign(first) = Sign(second)

\* C8: torus generate(x, y) and generate(y, x) leave identical descriptors and
\* meshes, and the stored innerRadius is <= the stored outerRadius.
TorusSwapped(c) ==
    [c EXCEPT !.innerRadius = c.outerRadius, !.outerRadius = c.innerRadius]

C8_RadiusOrder ==
    /\ obj.cls = "Torus" =>
         /\ obj.desc.innerRadius <= obj.desc.outerRadius
         /\ SameOutcome([obj |-> obj, raised |-> raised],
                        Generate(New("Torus"), TorusSwapped(last)))
    /\ [][obj.cls = "Torus" =>
            /\ obj'.desc.innerRadius <= obj'.desc.outerRadius
            /\ SameOutcome([obj |-> obj', raised |-> raised'],
                           Generate(obj, TorusSwapped(last')))]_vars

\* A call with innerRadius > outerRadius has left a mesh.
C8_Witness ==
    /\ obj.cls = "Torus" /\ Returned
    /\ last.innerRadius = 2 /\ last.outerRadius = 1
    /\ obj.desc.innerRadius = 1 /\ obj.desc.outerRadius = 2
    /\ VertexCount = 25

\* C9: a torus generate call with innerRadius = outerRadius returns normally
\* and leaves an empty vertex sequence and an empty index sequence, for any
\* division counts and whatever mesh was held before.
C9_ZeroThickness ==
    (obj.cls = "Torus" /\ last.innerRadius = last.outerRadius) =>
      /\ Returned
      /\ ~obj.vertices.none /\ VertexCount = 0
      /\ ~obj.indices.none /\ IndexCount = 0

\* Division counts that raise with any other radii.
C9_Witness ==
    /\ obj.cls = "Torus" /\ Returned
    /\ last.innerRadius = 1 /\ last.outerRadius = 1
    /\ last.nsides = -2 /\ last.rings = 0
    /\ VertexCount = 0 /\ IndexCount = 0

\* C10: after any sequence of generate calls the stored vertex and index
\* sequences are those a fresh instance holds after the last call alone.
C10_Overwrites ==
    /\ SameArray(obj.vertices, Generate(New(obj.cls), last).obj.vertices)
    /\ SameArray(obj.indices, Generate(New(obj.cls), last).obj.indices)

\* C11: instances are independent: a step of generate on one instance leaves
\* the descriptor, vertices and indices every other instance reads unchanged,
\* and the attributes declared at class level keep their values.
C11_Independent ==
    [][/\ klass' = klass
       /\ \A m \in Insts \ {actor'} :
            View([klass |-> klass', inst |-> inst'], m) = View(World, m)]_vars

\* Two spheres, each holding its own mesh; the second was generated last.
C11_Witness ==
    /\ inst[1].cls = "Sphere" /\ inst[2].cls = "Sphere"
    /\ thread[1] = "ready" /\ thread[2] = "ready" /\ actor = 2
    /\ Len(View(World, 1).vertices.rows) = 16 /\ View(World, 1).desc.slices = 3
    /\ Len(View(World, 2).vertices.rows) = 20 /\ View(World, 2).desc.slices = 4

\* The stored vertex record of grid sample (i, j).
Row(i, j) == obj.vertices.rows[i * (DivB + 1) + j + 1]

\* C12, as claimed: for every column j in 0..stacks the sphere's vertices at
\* (0, j) and (slices, j) have identical position and normal, and uv second
\* components 0 and 1.
C12_PolesCoincide ==
    (obj.cls = "Sphere" /\ Returned) =>
      \A j \in 0..DivB :
        /\ Row(0, j).pos = Row(DivA, j).pos
        /\ Row(0, j).normal = Row(DivA, j).normal
        /\ Row(0, j).uv[2] = <<0, 1>> /\ Row(DivA, j).uv[2] = <<1, 1>>

\* C12, amended: the seam runs along the second axis: for every row i in
\* 0..slices the vertices at (i, 0) and (i, stacks) have the same position and
\* normal, and uv first components 0 and 1; the vertices at (0, j) and
\* (slices, j) are the two poles (0, 0, -radius) and (0, 0, radius), with
\* normals (0, 0, -1) and (0, 0, 1) and uv second components 0 and 1.
C12_SeamAlongTheta ==
    (obj.cls = "Sphere" /\ Returned) =>
      /\ \A i \in 0..DivA :
           /\ Row(i, 0).pos = Row(i, DivB).pos
           /\ Row(i, 0).normal = Row(i, DivB).normal
           /\ Row(i, 0).uv[1] = <<0, 1>> /\ Row(i, DivB).uv[1] = <<1, 1>>
      /\ \A j \in 0..DivB :
           /\ Row(0, j).pos = <<Zero, Zero, Const(0 - obj.desc.radius)>>
           /\ Row(DivA, j).pos = <<Zero, Zero, Const(obj.desc.radius)>>
           /\ Row(0, j).normal = <<Zero, Zero, Const(-1)>>
           /\ Row(DivA, j).normal = <<Zero, Zero, Const(1)>>
           /\ Row(0, j).uv[2] = <<0, 1>> /\ Row(DivA, j).uv[2] = <<1, 1>>

\* A sphere of radius 0.25 whose row 1 meets itself off the axis.
C12_Witness ==
    /\ obj.cls = "Sphere" /\ Returned
    /\ obj.desc.radius = 1 /\ DivA = 3 /\ DivB = 4
    /\ Row(1, 0).pos = Row(1, 4).pos
    /\ Row(1, 0).pos[1] # Zero
    /\ Row(1, 0).uv[1] # Row(1, 4).uv[1]

\* C13: every stored normal of a torus with non-zero tube thickness has length
\* 1: the factor sign(b) * sign(a + b*cos(v)) on the unit vector
\* (cos u cos v, sin u cos v, sin v) is never 0, so no normal is the zero vector.
C13_TorusNormalsUnit ==
    (obj.cls = "Torus" /\ Returned) =>
      \A k \in 1..VertexCount : obj.vertices.rows[k].normal # <<Zero, Zero, Zero>>

\* C14: after every generate call, returned or aborted, the stored mesh is
\* empty, or it holds one written vertex record for each of the
\* (divisions_a + 1) * (divisions_b + 1) samples of the stored division counts
\* and a flat index buffer.
C14_NoPartialState ==
    \/ /\ ~obj.vertices.none /\ VertexCount = 0
       /\ ~obj.indices.none /\ IndexCount = 0
    \/ /\ VertexCount = (DivA + 1) * (DivB + 1)
       /\ \A k \in 1..VertexCount :
            /\ obj.vertices.rows[k] # ZeroVertex
            /\ obj.vertices.rows[k].color = obj.desc.color
       /\ obj.indices.ndim = 1
       /\ IndexCount = 6 * VertexCount

\* C15: a non-empty generated mesh with stored division counts R and C has
\* (R+1)*(C+1) vertex records of 11 fields, the record of grid sample (i, j)
\* is at position i*(C+1) + j, and each position is written exactly once.
\* The record the loop body computes at sample (i, j) of the stored descriptor.
SampleVertex(i, j) ==
    IF obj.cls = "Sphere"
    THEN SphereVertex(obj.desc.radius, obj.desc.slices, obj.desc.stacks,
                      obj.desc.color, i, j)
    ELSE TorusVertex(obj.desc.outerRadius + obj.desc.innerRadius,
                     obj.desc.outerRadius - obj.desc.innerRadius,
                     obj.desc.nsides, obj.desc.rings, obj.desc.color, i, j)

Fields(row) == Len(row.pos) + Len(row.normal) + Len(row.color) + Len(row.uv)

C15_VertexGrid ==
    (Returned /\ VertexCount > 0) =>
      /\ VertexCount = (DivA + 1) * (DivB + 1)
      /\ \A k \in 1..VertexCount : Fields(obj.vertices.rows[k]) = 11
      /\ \A i \in 0..DivA : \A j \in 0..DivB :
           obj.vertices.rows[i * (DivB + 1) + j + 1] = SampleVertex(i, j)
      /\ Cardinality({i * (DivB + 1) + j : i \in 0..DivA, j \in 0..DivB}) = VertexCount

\* A sphere with different counts on the two axes: sample (2, 1) is at 2*5 + 1.
C15_Witness ==
    /\ obj.cls = "Sphere" /\ Returned
    /\ DivA = 3 /\ DivB = 4 /\ VertexCount = 20
    /\ obj.vertices.rows[12] = SampleVertex(2, 1)
    /\ obj.vertices.rows[12] # SampleVertex(1, 2)

\* C16: the sphere stores uv = (j / stacks, i / slices) and the torus
\* uv = (i / nsides, j / rings) at grid sample (i, j); every component lies in
\* [0, 1], is 0 at grid index 0 and 1 at the last grid index of its axis, and
\* strictly increases with that index.
\* The fraction f is n / d.
IsQuotient(f, n, d) == f[2] > 0 /\ f[1] * d = n * f[2]

\* The uv component that follows the first grid index i, and the second, j.
UVAlongI(i, j) == IF obj.cls = "Sphere" THEN Row(i, j).uv[2] ELSE Row(i, j).uv[1]

UVAlongJ(i, j) == IF obj.cls = "Sphere" THEN Row(i, j).uv[1] ELSE Row(i, j).uv[2]

C16_TextureCoordinates ==
    (Returned /\ VertexCount > 0) =>
      \A i \in 0..DivA : \A j \in 0..DivB :
        /\ IsQuotient(UVAlongI(i, j), i, DivA)
        /\ IsQuotient(UVAlongJ(i, j), j, DivB)
        /\ \A c \in {UVAlongI(i, j), UVAlongJ(i, j)} : 0 <= c[1] /\ c[1] <= c[2]
        /\ i = 0 => UVAlongI(i, j)[1] = 0
        /\ j = 0 => UVAlongJ(i, j)[1] = 0
        /\ i = DivA => UVAlongI(i, j)[1] = UVAlongI(i, j)[2]
        /\ j = DivB => UVAlongJ(i, j)[1] = UVAlongJ(i, j)[2]
        /\ i < DivA => FracLess(UVAlongI(i, j), UVAlongI(i + 1, j))
        /\ j < DivB => FracLess(UVAlongJ(i, j), UVAlongJ(i, j + 1))

\* A torus with different counts on the two axes: sample (1, 2) has uv (1/4, 2/3).
C16_Witness ==
    /\ obj.cls = "Torus" /\ Returned
    /\ DivA = 4 /\ DivB = 3 /\ VertexCount = 20
    /\ Row(1, 2).uv = <<<<1, 4>>, <<2, 3>>>>

====
